---- MODULE Spec2Model ----
(***************************************************************************)
(* yonote CLI: the concurrent page fetcher (core/utils.py) and the local   *)
(* mirror store with its subtree refresh (core/cache.py).                  *)
(*                                                                         *)
(* One CLI invocation runs at a time.  A call is modelled from its entry   *)
(* to its return or raise; the server's data is fixed while a fetch runs   *)
(* and may change between calls.                                           *)
(***************************************************************************)
EXTENDS Integers, Sequences, FiniteSets, Bags, TLC

\* ---------------------------------------------------------------- bounds
MaxK == 5          \* largest data set served to a direct fetch_all_concurrent call
MaxLimit == 2      \* largest small page size passed to a direct call
MaxWorkers == 3    \* largest workers argument
MaxSteps == 3      \* store calls plus server changes of one behaviour
MaxPageLen == 2    \* most records under one key of a page response
MaxTreeLen == 2    \* longest document list handed to the tree assembly
MaxUsers == 2      \* most users named on a group add-user / del-user command
MaxMemberPages == 2   \* full pages of the largest membership list

\* ------------------------------------------------------ program constants
API_MAX_LIMIT == 100
None == 0          \* Python's None: a null / absent parentDocumentId
DefaultWorkers == 8   \* workers: int = 8

\* ------------------------------------------------------------- universes
DocIds == 1 .. 4
CollIds == {1, 2}
WorkerArgs == (-1) .. MaxWorkers
LimitArgs == (1 .. MaxLimit) \cup {API_MAX_LIMIT + 1}
ColCounts == {2, API_MAX_LIMIT + 1}
StoreWorkers == {0, 1, 2}   \* --workers of a list_collections call

VARIABLES
    pc,           \* position of the running call
    op,           \* the running call: its name and arguments
    cache,        \* local `cache` of the store functions (the loaded dict)
    data,         \* the server's complete result list of the running query
    gaps,         \* offsets at which the server returns one record too few
    results,      \* local `results` of fetch_all_concurrent
    next_offset,  \* local `next_offset`
    pending,      \* offsets submitted to the executor and not yet consumed
    stop,         \* local `stop`
    reqs,         \* offsets of the page requests issued, in issue order
    ret,          \* outcome of the call: returned list or raised
    file,         \* the mirror file CACHE_PATH
    file0,        \* the mirror file as it was when the call started
    srvDocs,      \* server: per collection, the parent of each existing document
    srvCols,      \* server: number of collections
    past,         \* history: complete lists the server has had, per key
    docs,         \* local `docs` of refresh_document_branch
    new_children, \* local `new_children`
    stack,        \* local `stack`
    to_remove,    \* local `to_remove`
    nsteps,       \* store calls and server changes made so far
    roots,        \* local `roots` of cmd_docs_tree
    body,         \* the response body the server sent for a page request
    resp,         \* _post_page: the value http_json returned (local `data`)
    page_records, \* the records fetch_all_concurrent takes from a page
    users,        \* args.users still to be processed by a group command
    stdout,       \* lines printed to stdout
    stderr,       \* lines printed to stderr
    exit_code,    \* exit status of the process, None while it runs
    cur_offset,   \* local `offset` of _fetch_memberships
    inv           \* two invocations of the CLI sharing one mirror file

vars == <<pc, op, cache, data, gaps, results, next_offset, pending, stop, reqs,
          ret, file, file0, srvDocs, srvCols, past, docs, new_children, stack,
          to_remove, nsteps, roots, body, resp, page_records, users, stdout, stderr,
          exit_code, cur_offset, inv>>

fetchVars == <<data, gaps, results, next_offset, pending, stop, reqs>>
walkVars == <<docs, new_children, stack, to_remove>>
srvVars == <<srvDocs, srvCols, past>>
cmdVars == <<roots, body, resp, page_records, users, stdout, stderr, exit_code,
            cur_offset, inv>>

\* --------------------------------------------------------------- helpers
Min(a, b) == IF a < b THEN a ELSE b

Rec(i, p) == [id |-> i, parentDocumentId |-> p]

RECURSIVE SeqToBag(_)
SeqToBag(s) ==
    IF s = <<>> THEN EmptyBag
    ELSE SetToBag({Head(s)}) (+) SeqToBag(Tail(s))

Ids(s) == {s[i].id : i \in 1 .. Len(s)}

EmptyMap == [k \in {} |-> <<>>]

\* coll_key = f"collection:{collection_id}"
coll_key(c) == IF c = 1 THEN "collection:1" ELSE "collection:2"

\* cache[k] = v
Put(m, k, v) == [x \in DOMAIN m \cup {k} |-> IF x = k THEN v ELSE m[x]]

\* ------------------------------------------------------------ the server
\* The complete document list of collection c, in the server's id order.
RECURSIVE ListOf(_, _)
ListOf(parent, ids) ==
    IF ids = {} THEN <<>>
    ELSE LET i == CHOOSE x \in ids : \A y \in ids : x <= y
         IN <<Rec(i, parent[i])>> \o ListOf(parent, ids \ {i})

SrvList(c) == ListOf(srvDocs[c], DOMAIN srvDocs[c])

\* /documents.list filtered by parentDocumentId = p.
SrvChildren(c, p) ==
    SelectSeq(SrvList(c), LAMBDA d : d.parentDocumentId = p)

\* /collections.list (and any other flat list) of n records.
FlatList(n) == [i \in 1 .. n |-> Rec(i, None)]

\* One page of list d: records off .. off+lim-1, one fewer at an offset in g.
ServerPage(d, g, lim, off) ==
    LET hi == Min(off + lim, Len(d))
        full == SubSeq(d, off + 1, hi)
    IN IF off \in g /\ Len(full) > 0
       THEN SubSeq(full, 1, Len(full) - 1)
       ELSE full

\* ------------------------------------------------- core/utils.py, paging
\* _post_page: the limit is clamped, the records are the response's data.
post_page(limit, offset) ==
    ServerPage(data, gaps, Min(limit, API_MAX_LIMIT), offset)

\* Python's list(range(a, b, step)) for step > 0.
RECURSIVE Range(_, _, _)
Range(a, b, step) ==
    IF a >= b THEN <<>> ELSE <<a>> \o Range(a + step, b, step)

SeqSet(s) == {s[i] : i \in 1 .. Len(s)}

\* limit = min(limit, API_MAX_LIMIT)
Limit == Min(op.limit, API_MAX_LIMIT)

\* (variant: the range end is off by one, one more request per round)
Offsets_extra == Range(next_offset, next_offset + Limit * op.workers + 1, Limit)

\* (variant: two rounds' worth of offsets are taken at once)
Offsets_two_rounds ==
    Range(next_offset, next_offset + 2 * Limit * op.workers, Limit)

\* offsets = list(range(next_offset, next_offset + limit * workers, limit))
Offsets == Range(next_offset, next_offset + Limit * op.workers, Limit)

\* (variant: the short-page test written with <=)
Short_le(page) == Len(page) <= Limit

\* if n_first < limit / if len(page_items) < limit
Short(page) == Len(page) < Limit

\* (variant: a page that completes after a page of a higher offset is lost)
Extend_inorder(res, page) ==
    IF res # <<>> /\ page # <<>> /\ page[1].id < res[Len(res)].id
    THEN res ELSE res \o page

\* results.extend(page_items)
Extend(res, page) == res \o page

\* (variant: what was fetched before the failure is written to the mirror)
Raise_saves_partial ==
    /\ pc' = "done"
    /\ ret' = [kind |-> "raised", value |-> <<>>, wrote |-> "none"]
    /\ pending' = {}
    /\ file' = IF op.use_cache
               THEN [kind |-> "object",
                     map |-> Put(cache.map,
                                 IF op.name = "list_collections"
                                 THEN "collections"
                                 ELSE coll_key(op.collection_id),
                                 results)]
               ELSE file
    /\ UNCHANGED <<op, cache, data, gaps, results, next_offset, stop,
                   file0, walkVars, srvVars, cmdVars, nsteps>>

\* A page request, or the first page, fails fatally: http_json exits or
\* raises, the exception surfaces in the caller and the call is over.
Raise ==
    /\ pc' = "done"
    /\ ret' = [kind |-> "raised", value |-> <<>>, wrote |-> "none"]
    /\ pending' = {}
    /\ UNCHANGED <<op, cache, data, gaps, results, next_offset, stop, file,
                   file0, walkVars, srvVars, cmdVars, nsteps>>

\* first = _post_page(.., limit, 0); a short first page is the whole result.
FirstPage ==
    /\ pc = "first"
    /\ \E ok \in BOOLEAN :
        IF ~ok THEN Raise /\ reqs' = reqs \o <<0>>
        ELSE LET items == post_page(Limit, 0)
             IN /\ reqs' = reqs \o <<0>>
                /\ results' = items
                /\ IF Short(items)
                   THEN pc' = "fetched" /\ UNCHANGED next_offset
                   ELSE pc' = "loop" /\ next_offset' = Limit
                /\ UNCHANGED <<op, cache, data, gaps, pending, stop, ret, file,
                               file0, walkVars, srvVars, cmdVars, nsteps>>

\* (variant: the requests of a round are submitted and consumed one by one)
RoundDispatch_first_only ==
    /\ pc = "loop"
    /\ IF Offsets = <<>>
       THEN /\ pc' = "fetched"
            /\ UNCHANGED <<pending, stop, reqs>>
       ELSE /\ pc' = "wait"
            /\ pending' = {Offsets[1]}
            /\ reqs' = reqs \o <<Offsets[1]>>
            /\ stop' = FALSE
    /\ UNCHANGED <<op, cache, data, gaps, results, next_offset, ret, file,
                   file0, walkVars, srvVars, cmdVars, nsteps>>

\* Top of `while True`: compute the offsets, break if there are none, else
\* submit every request of the round to the executor.
RoundDispatch ==
    /\ pc = "loop"
    /\ IF Offsets = <<>>
       THEN /\ pc' = "fetched"
            /\ UNCHANGED <<pending, stop, reqs>>
       ELSE /\ pc' = "wait"
            /\ pending' = SeqSet(Offsets)
            /\ reqs' = reqs \o Offsets
            /\ stop' = FALSE
    /\ UNCHANGED <<op, cache, data, gaps, results, next_offset, ret, file,
                   file0, walkVars, srvVars, cmdVars, nsteps>>

\* (variant: the page consumed last decides whether the loop stops)
PageDone_last_decides(off) ==
    /\ pc = "wait"
    /\ off \in pending
    /\ \E ok \in BOOLEAN :
        IF ~ok THEN Raise /\ UNCHANGED reqs
        ELSE LET page_items == post_page(Limit, off)
             IN /\ results' = Extend(results, page_items)
                /\ stop' = Short(page_items)
                /\ pending' = pending \ {off}
                /\ UNCHANGED <<pc, op, cache, data, gaps, next_offset, reqs,
                               ret, file, file0, walkVars, srvVars, cmdVars, nsteps>>

\* as_completed yields one finished future, in any order of completion.
PageDone(off) ==
    /\ pc = "wait"
    /\ off \in pending
    /\ \E ok \in BOOLEAN :
        IF ~ok THEN Raise /\ UNCHANGED reqs
        ELSE LET page_items == post_page(Limit, off)
             IN /\ results' = Extend(results, page_items)
                /\ stop' = (stop \/ Short(page_items))
                /\ pending' = pending \ {off}
                /\ UNCHANGED <<pc, op, cache, data, gaps, next_offset, reqs,
                               ret, file, file0, walkVars, srvVars, cmdVars, nsteps>>

\* (variant: next_offset advances by one page only)
RoundEnd_advance_one ==
    /\ pc = "wait"
    /\ pending = {}
    /\ next_offset' = next_offset + Limit
    /\ pc' = IF stop THEN "fetched" ELSE "loop"
    /\ UNCHANGED <<op, cache, data, gaps, results, pending, stop, reqs, ret,
                   file, file0, walkVars, srvVars, cmdVars, nsteps>>

\* (variant: the round is left as soon as a short page was seen)
RoundEnd_no_wait ==
    /\ pc = "wait"
    /\ pending = {} \/ stop
    /\ next_offset' = next_offset + Limit * op.workers
    /\ pc' = IF stop THEN "fetched" ELSE "loop"
    /\ UNCHANGED <<op, cache, data, gaps, results, pending, stop, reqs, ret,
                   file, file0, walkVars, srvVars, cmdVars, nsteps>>

\* All futures of the round consumed: advance, then stop or go round again.
RoundEnd ==
    /\ pc = "wait"
    /\ pending = {}
    /\ next_offset' = next_offset + Limit * op.workers
    /\ pc' = IF stop THEN "fetched" ELSE "loop"
    /\ UNCHANGED <<op, cache, data, gaps, results, pending, stop, reqs, ret,
                   file, file0, walkVars, srvVars, cmdVars, nsteps>>


\* ---------------------------------------------------- core/cache.py, file
\* The mirror file: absent, unparseable text ("invalid"), a JSON object
\* with its entries, or valid JSON that is no object: the array [] or a
\* scalar (a number, true, null).
AbsentFile == [kind |-> "absent", map |-> EmptyMap]
InvalidFile == [kind |-> "invalid", map |-> EmptyMap]
ArrayFile == [kind |-> "array", map |-> EmptyMap]
ScalarFile == [kind |-> "scalar", map |-> EmptyMap]

\* {}
EmptyDict == [kind |-> "object", map |-> EmptyMap]

\* load_cache: json.loads of the file's text, whatever JSON value that is,
\* or {} when the file is absent or unparseable.
load_cache ==
    IF file.kind \in {"object", "array", "scalar"} THEN file ELSE EmptyDict

\* save_cache: write_text either replaces the file, or fails before the
\* file is opened (file kept), or fails after it was truncated (file
\* left unparseable); the exception is swallowed.
WriteOutcomes == {"written", "denied", "truncated"}

save_cache(c, w) ==
    CASE w = "written" -> c
      [] w = "denied" -> file
      [] OTHER -> InvalidFile

\* (variant: a failed write of the mirror propagates to the caller)
Returned_unless_write_failed(v, w) ==
    IF w \in {"denied", "truncated"}
    THEN [kind |-> "raised", value |-> <<>>, wrote |-> w]
    ELSE [kind |-> "returned", value |-> v, wrote |-> w]

\* The outcome of a call: the list returned, and what became of its write.
Returned(v, w) == [kind |-> "returned", value |-> v, wrote |-> w]
NoRet == [kind |-> "none", value |-> <<>>, wrote |-> "none"]

\* An uncaught TypeError / AttributeError ends the call with a traceback.
Crashed == [kind |-> "crashed", value |-> <<>>, wrote |-> "none"]

Call(n, c, p, uc, rc, w, l) ==
    [name |-> n, collection_id |-> c, parent_id |-> p, use_cache |-> uc,
     refresh_cache |-> rc, workers |-> w, limit |-> l, cmd |-> "none"]

\* (variant: an empty cached list counts as a miss)
FastPath_truthy(uc, rc, key, c) ==
    uc /\ ~rc /\ key \in DOMAIN c.map /\ c.map[key] # <<>>

\* (variant: the refresh flag is not consulted)
FastPath_norefresh(uc, rc, key, c) == uc /\ key \in DOMAIN c.map

\* if use_cache and not refresh_cache and key in cache: return cache[key]
FastPath(uc, rc, key, c) == uc /\ ~rc /\ key \in DOMAIN c.map

\* `key in cache` is evaluated when use_cache and not refresh_cache; on a
\* scalar it raises TypeError (not iterable).  On the array [] it is False.
InRaises(uc, rc, c) == uc /\ ~rc /\ c.kind = "scalar"

\* Entry of a store function up to the fetch: load, fast path or fetch.
StoreEntry(o, key, srvlist) ==
    /\ pc = "idle"
    /\ nsteps < MaxSteps
    /\ nsteps' = nsteps + 1
    /\ op' = o
    /\ file0' = file
    /\ cache' = IF o.use_cache THEN load_cache ELSE EmptyDict
    /\ reqs' = <<>>
    /\ IF InRaises(o.use_cache, o.refresh_cache, cache')
       THEN /\ pc' = "done"
            /\ ret' = Crashed
            /\ UNCHANGED <<data, gaps>>
       ELSE IF FastPath(o.use_cache, o.refresh_cache, key, cache')
       THEN /\ pc' = "done"
            /\ ret' = Returned(cache'.map[key], "none")
            /\ UNCHANGED <<data, gaps>>
       ELSE /\ pc' = "first"
            /\ ret' = NoRet
            /\ data' = srvlist
            /\ gaps' = {}
    /\ UNCHANGED <<results, next_offset, pending, stop, file, walkVars, srvVars, cmdVars>>

\* (variant: the list is written to the mirror whatever use_cache is)
StoreExit_always_saves(key) ==
    /\ pc = "fetched"
    /\ pc' = "done"
    /\ IF cache.kind # "object"
       THEN /\ ret' = Crashed
            /\ UNCHANGED <<cache, file>>
       ELSE /\ cache' = [cache EXCEPT !.map = Put(@, key, results)]
            /\ \E w \in WriteOutcomes :
                  /\ file' = save_cache(cache', w)
                  /\ ret' = Returned(results, w)
    /\ UNCHANGED <<op, fetchVars, file0, walkVars, srvVars, cmdVars, nsteps>>

\* After the fetch: cache[key] = list; save_cache(cache); return list.
\* The item assignment raises TypeError when cache is no dict.
StoreExit(key) ==
    /\ pc = "fetched"
    /\ pc' = "done"
    /\ IF op.use_cache /\ cache.kind # "object"
       THEN /\ ret' = Crashed
            /\ UNCHANGED <<cache, file>>
       ELSE IF op.use_cache
       THEN /\ cache' = [cache EXCEPT !.map = Put(@, key, results)]
            /\ \E w \in WriteOutcomes :
                  /\ file' = save_cache(cache', w)
                  /\ ret' = Returned(results, w)
       ELSE /\ ret' = Returned(results, "none")
            /\ UNCHANGED <<cache, file>>
    /\ UNCHANGED <<op, fetchVars, file0, walkVars, srvVars, cmdVars, nsteps>>

list_collections_call ==
    \E uc \in BOOLEAN, rc \in BOOLEAN, w \in StoreWorkers :
        StoreEntry(Call("list_collections", 0, None, uc, rc, w, API_MAX_LIMIT),
                   "collections", FlatList(srvCols))

list_collections_fetched ==
    /\ op.name = "list_collections"
    /\ StoreExit("collections")

list_documents_in_collection_call ==
    \E c \in CollIds, uc \in BOOLEAN, rc \in BOOLEAN, w \in {DefaultWorkers} :
        StoreEntry(Call("list_documents_in_collection", c, None, uc, rc, w,
                        API_MAX_LIMIT),
                   coll_key(c), SrvList(c))

list_documents_in_collection_fetched ==
    /\ op.name = "list_documents_in_collection"
    /\ StoreExit(coll_key(op.collection_id))

\* ------------------------------------- core/cache.py, subtree refresh
\* [d.get("id") for d in docs if d.get("parentDocumentId") == p]
ChildIds(ds, p) ==
    LET kids == SelectSeq(ds, LAMBDA d : d.parentDocumentId = p)
    IN [i \in 1 .. Len(kids) |-> kids[i].id]

\* (variant: only the direct children are collected, nothing is pushed)
WalkPush_none(ds, cur) == <<>>

\* stack.extend(d.get("id") for d in docs if d.get("parentDocumentId") == cur)
WalkPush(ds, cur) == ChildIds(ds, cur)

\* (variant: nothing is filtered out, the children are only appended)
Merged_append_only(ds, rm, fresh) == ds \o fresh

\* (variant: the refreshed parent is dropped with its stale subtree)
Merged_andParent(ds, rm, fresh) ==
    SelectSeq(ds, LAMBDA d : d.id \notin rm \cup {op.parent_id}) \o fresh

\* docs = [d for d in docs if d.get("id") not in to_remove]
\* docs.extend(new_children)
Merged(ds, rm, fresh) ==
    SelectSeq(ds, LAMBDA d : d.id \notin rm) \o fresh

\* cache = load_cache(); docs = cache.get(coll_key, []); then the fetch of
\* the children of parent_id.  cache.get raises AttributeError when cache
\* is no dict.
refresh_document_branch_call ==
    \E c \in CollIds, p \in DocIds \cup {None}, w \in {DefaultWorkers} :
        /\ pc = "idle"
        /\ nsteps < MaxSteps
        /\ nsteps' = nsteps + 1
        /\ op' = Call("refresh_document_branch", c, p, TRUE, TRUE, w,
                      API_MAX_LIMIT)
        /\ file0' = file
        /\ cache' = load_cache
        /\ docs' = IF coll_key(c) \in DOMAIN cache'.map
                   THEN cache'.map[coll_key(c)] ELSE <<>>
        /\ data' = SrvChildren(c, p)
        /\ gaps' = {}
        /\ reqs' = <<>>
        /\ IF cache'.kind = "object"
           THEN ret' = NoRet /\ pc' = "first"
           ELSE ret' = Crashed /\ pc' = "done"
        /\ UNCHANGED <<results, next_offset, pending, stop, file,
                       new_children, stack, to_remove, srvVars, cmdVars>>

\* new_children = fetch_all_concurrent(..); to_remove = set(); stack = [..]
refresh_document_branch_fetched ==
    /\ pc = "fetched"
    /\ op.name = "refresh_document_branch"
    /\ new_children' = results
    /\ to_remove' = {}
    /\ stack' = ChildIds(docs, op.parent_id)
    /\ pc' = "walk"
    /\ UNCHANGED <<op, cache, fetchVars, ret, file, file0, docs, srvVars, cmdVars, nsteps>>

\* One turn of `while stack`: cur = stack.pop(); to_remove.add(cur);
\* stack.extend(children of cur).
refresh_document_branch_walk ==
    /\ pc = "walk"
    /\ stack # <<>>
    /\ LET cur == stack[Len(stack)]
       IN /\ to_remove' = to_remove \cup {cur}
          /\ stack' = SubSeq(stack, 1, Len(stack) - 1) \o WalkPush(docs, cur)
    /\ UNCHANGED <<pc, op, cache, fetchVars, ret, file, file0, docs,
                   new_children, srvVars, cmdVars, nsteps>>

\* The stack is empty: filter, extend, store, save, return.
refresh_document_branch_merge ==
    /\ pc = "walk"
    /\ stack = <<>>
    /\ docs' = Merged(docs, to_remove, new_children)
    /\ cache' = [cache EXCEPT !.map = Put(@, coll_key(op.collection_id), docs')]
    /\ \E w \in WriteOutcomes :
          /\ file' = save_cache(cache', w)
          /\ ret' = Returned(docs', w)
    /\ pc' = "done"
    /\ UNCHANGED <<op, fetchVars, file0, new_children, stack, to_remove,
                   srvVars, cmdVars, nsteps>>

\* ---------------------------------------- direct callers of the fetcher
\* A command calls fetch_all_concurrent itself (users, collections or
\* documents list) with its --limit and --workers; the server holds k
\* records and, when g is not empty, serves one page one record short.
GapChoices(k, lim) ==
    {{}} \cup {{o} : o \in {x \in 0 .. k : x % lim = 0 /\ x + lim < k}}

fetch_call ==
    \E l \in LimitArgs, w \in WorkerArgs, k \in 0 .. MaxK :
      \E g \in GapChoices(k, Min(l, API_MAX_LIMIT)) :
        /\ pc = "idle"
        /\ op' = Call("fetch", 0, None, FALSE, FALSE, w, l)
        /\ data' = FlatList(k)
        /\ gaps' = g
        /\ reqs' = <<>>
        /\ ret' = NoRet
        /\ file0' = file
        /\ pc' = "first"
        /\ UNCHANGED <<cache, results, next_offset, pending, stop, file,
                       walkVars, srvVars, cmdVars, nsteps>>

fetch_return ==
    /\ pc = "fetched"
    /\ op.name = "fetch"
    /\ ret' = Returned(results, "none")
    /\ pc' = "done"
    /\ UNCHANGED <<op, cache, fetchVars, file, file0, walkVars, srvVars, cmdVars, nsteps>>

\* The command ends; the next invocation starts with fresh locals.
NoCall == Call("none", 0, None, FALSE, FALSE, 0, 0)

\* No invocation of the pair has started.
NoInv ==
    [i \in {1, 2} |-> [pc |-> "off", fn |-> "none", collection_id |-> 0,
                       cache |-> EmptyDict, value |-> <<>>, seq |-> 0]]

Exit ==
    /\ pc = "done"
    /\ pc' = "idle"
    /\ op' = NoCall
    /\ cache' = EmptyDict
    /\ data' = <<>>
    /\ gaps' = {}
    /\ results' = <<>>
    /\ next_offset' = 0
    /\ pending' = {}
    /\ stop' = FALSE
    /\ reqs' = <<>>
    /\ ret' = NoRet
    /\ file0' = file
    /\ docs' = <<>>
    /\ new_children' = <<>>
    /\ stack' = <<>>
    /\ to_remove' = {}
    /\ roots' = <<>>
    /\ body' = EmptyDict
    /\ resp' = EmptyDict
    /\ page_records' = <<>>
    /\ users' = <<>>
    /\ stdout' = <<>>
    /\ stderr' = <<>>
    /\ exit_code' = None
    /\ cur_offset' = 0
    /\ UNCHANGED <<file, srvVars, nsteps, inv>>

\* ------------------------------------------------- the server, between calls
RECURSIVE Below(_, _, _)
\* ids below p in parent map m (n bounds the depth)
Below(m, p, n) ==
    IF n = 0 THEN {}
    ELSE LET kids == {d \in DOMAIN m : m[d] = p}
         IN kids \cup UNION {Below(m, k, n - 1) : k \in kids}

Restrict(m, S) == [d \in S |-> m[d]]

SrvMove ==
    \E d \in DOMAIN srvDocs[1], p \in DOMAIN srvDocs[1] \cup {None} :
        /\ p # srvDocs[1][d]
        /\ p \notin Below(srvDocs[1], d, Cardinality(DocIds)) \cup {d}
        /\ srvDocs' = [srvDocs EXCEPT ![1][d] = p]
        /\ UNCHANGED srvCols

SrvDelete ==
    \E d \in DOMAIN srvDocs[1] :
        /\ srvDocs' = [srvDocs EXCEPT ![1] =
              Restrict(@, DOMAIN @ \ (Below(@, d, Cardinality(DocIds)) \cup {d}))]
        /\ UNCHANGED srvCols

SrvCreate ==
    \E d \in DocIds \ DOMAIN srvDocs[1], p \in DOMAIN srvDocs[1] \cup {None} :
        /\ srvDocs' = [srvDocs EXCEPT ![1] =
              [x \in DOMAIN @ \cup {d} |-> IF x = d THEN p ELSE @[x]]]
        /\ UNCHANGED srvCols

SrvCollections ==
    \E n \in ColCounts \ {srvCols} :
        /\ srvCols' = n
        /\ UNCHANGED srvDocs

ServerChange ==
    /\ pc = "idle"
    /\ nsteps < MaxSteps
    /\ nsteps' = nsteps + 1
    /\ SrvMove \/ SrvDelete \/ SrvCreate \/ SrvCollections
    /\ past' = [k \in DOMAIN past |->
                  past[k] \cup {IF k = "collections" THEN FlatList(srvCols')
                                ELSE IF k = "collection:1"
                                     THEN ListOf(srvDocs'[1], DOMAIN srvDocs'[1])
                                     ELSE ListOf(srvDocs'[2], DOMAIN srvDocs'[2])}]
    /\ UNCHANGED <<pc, op, cache, fetchVars, ret, file, file0, walkVars, cmdVars>>

\* ------------------------------------------------------------------ Init
\* Collection 1 holds A(1) -> A1(2) -> A1a(3) and B(4); collection 2 holds
\* no document.  The mirror file does not exist yet.
InitDocs ==
    [c \in CollIds |->
        IF c = 1 THEN (1 :> None) @@ (2 :> 1) @@ (3 :> 2) @@ (4 :> None)
        ELSE [d \in {} |-> None]]

\* Locals of a process in which no command has run yet.
InitLocals ==
    /\ pc = "idle"
    /\ op = NoCall
    /\ cache = EmptyDict
    /\ data = <<>>
    /\ gaps = {}
    /\ results = <<>>
    /\ next_offset = 0
    /\ pending = {}
    /\ stop = FALSE
    /\ reqs = <<>>
    /\ ret = NoRet
    /\ new_children = <<>>
    /\ stack = <<>>
    /\ to_remove = {}
    /\ nsteps = 0
    /\ roots = <<>>
    /\ page_records = <<>>
    /\ users = <<>>
    /\ stdout = <<>>
    /\ stderr = <<>>
    /\ exit_code = None
    /\ cur_offset = 0

InitServer ==
    /\ srvDocs = InitDocs
    /\ srvCols = 2
    /\ past = [k \in {"collections", "collection:1", "collection:2"} |->
                 {IF k = "collections" THEN FlatList(2)
                  ELSE IF k = "collection:1"
                       THEN ListOf(InitDocs[1], DOMAIN InitDocs[1])
                       ELSE ListOf(InitDocs[2], DOMAIN InitDocs[2])}]

Init ==
    /\ InitLocals
    /\ InitServer
    /\ file = AbsentFile
    /\ file0 = AbsentFile
    /\ docs = <<>>
    /\ body = EmptyDict
    /\ resp = EmptyDict
    /\ inv = NoInv

\* The store functions of one invocation after another, the server
\* changing in between.
Next ==
    \/ FirstPage
    \/ RoundDispatch
    \/ \E off \in pending : PageDone(off)
    \/ RoundEnd
    \/ list_collections_call
    \/ list_collections_fetched
    \/ list_documents_in_collection_call
    \/ list_documents_in_collection_fetched
    \/ refresh_document_branch_call
    \/ refresh_document_branch_fetched
    \/ refresh_document_branch_walk
    \/ refresh_document_branch_merge
    \/ ServerChange
    \/ Exit

Spec == Init /\ [][Next]_vars

\* The fetcher called directly, over every data set, page size and
\* workers argument of the bounds.
NextFetch ==
    \/ fetch_call
    \/ FirstPage
    \/ RoundDispatch
    \/ \E off \in pending : PageDone(off)
    \/ RoundEnd
    \/ fetch_return
    \/ Exit

SpecFetch == Init /\ [][NextFetch]_vars

\* The same, with every step of a running call eventually taken: the main
\* thread is scheduled, and every request handed to the executor completes
\* (urlopen has a timeout of 60 s).
SpecFetchLive ==
    /\ SpecFetch
    /\ WF_vars(FirstPage)
    /\ WF_vars(RoundDispatch)
    /\ WF_vars(\E off \in pending : PageDone(off))
    /\ WF_vars(RoundEnd)
    /\ WF_vars(fetch_return)

\* -----------------------------------------------------------------
\* The commands that take --refresh-cache, and a mirror file that was
\* left behind by an earlier run or damaged on disk
\* -----------------------------------------------------------------
\* args.workers (argparse default) of the commands below
CmdWorkers == {DefaultWorkers}

localVars == <<results, next_offset, pending, stop>>
otherCmdVars == <<body, resp, page_records, users, stdout, stderr, exit_code,
                 cur_offset, inv>>

\* (variant: only a null parent makes a root)
Roots_null_only(ds) == SelectSeq(ds, LAMBDA d : d.parentDocumentId = None)

\* roots = [d for d in docs if not d.get("parentDocumentId")
\*          or d.get("parentDocumentId") not in by_id]
\* (the records carry no title, so the stable sort by title keeps the order)
Roots(ds) ==
    SelectSeq(ds, LAMBDA d : \/ d.parentDocumentId = None
                             \/ d.parentDocumentId \notin Ids(ds))

\* yonote collections export <collection_id> [--refresh-cache]
cmd_collections_export_call ==
    \E c \in CollIds, rc \in BOOLEAN, w \in CmdWorkers :
        StoreEntry([Call("list_documents_in_collection", c, None, ~rc, rc, w,
                         API_MAX_LIMIT) EXCEPT !.cmd = "collections export"],
                   coll_key(c), SrvList(c))

\* yonote documents export-batch --interactive [--refresh-cache]
cmd_docs_export_batch_call ==
    \E c \in CollIds, rc \in BOOLEAN, w \in CmdWorkers :
        StoreEntry([Call("list_documents_in_collection", c, None, TRUE, rc, w,
                         API_MAX_LIMIT) EXCEPT !.cmd = "documents export-batch"],
                   coll_key(c), SrvList(c))

\* yonote documents import-dir --interactive [--refresh-cache]
cmd_docs_import_dir_call ==
    \E c \in CollIds, rc \in BOOLEAN, w \in CmdWorkers :
        StoreEntry([Call("list_documents_in_collection", c, None, TRUE, rc, w,
                         API_MAX_LIMIT) EXCEPT !.cmd = "documents import-dir"],
                   coll_key(c), SrvList(c))

\* yonote export / yonote import: interactive_browse_for_export and
\* interactive_pick_destination start with list_collections.
cmd_export_call ==
    \E rc \in BOOLEAN, w \in CmdWorkers :
        StoreEntry([Call("list_collections", 0, None, TRUE, rc, w,
                         API_MAX_LIMIT) EXCEPT !.cmd = "export"],
                   "collections", FlatList(srvCols))

cmd_import_call ==
    \E rc \in BOOLEAN, w \in CmdWorkers :
        StoreEntry([Call("list_collections", 0, None, TRUE, rc, w,
                         API_MAX_LIMIT) EXCEPT !.cmd = "import"],
                   "collections", FlatList(srvCols))

\* commands/diag.py: both commands pass use_cache=False, refresh_cache=True
\* and workers=getattr(args, "workers", 4).
DiagWorkers == {4}

cmd_diag_collections_call ==
    \E w \in DiagWorkers :
        StoreEntry([Call("list_collections", 0, None, FALSE, TRUE, w,
                         API_MAX_LIMIT) EXCEPT !.cmd = "diag collections"],
                   "collections", FlatList(srvCols))

cmd_diag_documents_call ==
    \E c \in CollIds, w \in DiagWorkers :
        StoreEntry([Call("list_documents_in_collection", c, None, FALSE, TRUE,
                         w, API_MAX_LIMIT) EXCEPT !.cmd = "diag documents"],
                   coll_key(c), SrvList(c))

\* browse_collection of the two browsers: the cached list of the picked
\* collection is shown as it is, unless refresh_cache is set or the list is
\* empty: then load_children(None) calls refresh_document_branch.
browse_collection ==
    \E c \in CollIds :
        /\ pc = "done"
        /\ op.name = "list_collections"
        /\ op.cmd \in {"export", "import"}
        /\ ret.kind = "returned"
        /\ LET shown == load_cache
           IN /\ shown.kind = "object"
              /\ IF coll_key(c) \in DOMAIN shown.map
                 THEN op.refresh_cache \/ shown.map[coll_key(c)] = <<>>
                 ELSE TRUE
        /\ op' = [Call("refresh_document_branch", c, None, TRUE,
                       op.refresh_cache, op.workers, API_MAX_LIMIT)
                    EXCEPT !.cmd = op.cmd]
        /\ file0' = file
        /\ cache' = load_cache
        /\ docs' = IF coll_key(c) \in DOMAIN cache'.map
                   THEN cache'.map[coll_key(c)] ELSE <<>>
        /\ data' = SrvChildren(c, None)
        /\ gaps' = {}
        /\ reqs' = <<>>
        /\ ret' = NoRet
        /\ pc' = "first"
        /\ UNCHANGED <<localVars, file, new_children, stack, to_remove,
                       srvVars, nsteps, cmdVars>>

\* yonote documents tree <collection_id> [--refresh-cache], up to the fetch:
\* the cached list is used when it is there and not empty.
cmd_docs_tree_call ==
    \E c \in CollIds, rc \in BOOLEAN, w \in CmdWorkers :
        /\ pc = "idle"
        /\ nsteps < MaxSteps
        /\ nsteps' = nsteps + 1
        /\ op' = [Call("cmd_docs_tree", c, None, ~rc, rc, w, API_MAX_LIMIT)
                    EXCEPT !.cmd = "documents tree"]
        /\ file0' = file
        /\ cache' = IF ~rc THEN load_cache ELSE EmptyDict
        /\ reqs' = <<>>
        /\ IF ~rc /\ cache'.kind = "scalar"
           THEN /\ pc' = "done"
                /\ ret' = Crashed
                /\ UNCHANGED <<docs, roots, data, gaps>>
           ELSE /\ docs' = IF ~rc /\ coll_key(c) \in DOMAIN cache'.map
                           THEN cache'.map[coll_key(c)] ELSE <<>>
                /\ IF docs' # <<>>
                   THEN /\ pc' = "done"
                        /\ ret' = Returned(docs', "none")
                        /\ roots' = Roots(docs')
                        /\ UNCHANGED <<data, gaps>>
                   ELSE /\ pc' = "first"
                        /\ ret' = NoRet
                        /\ data' = SrvList(c)
                        /\ gaps' = {}
                        /\ UNCHANGED roots
        /\ UNCHANGED <<localVars, file, new_children, stack, to_remove,
                       srvVars, otherCmdVars>>

\* After the fetch: cache = load_cache(); cache[key] = docs; save_cache(cache);
\* then the roots of the tree.
cmd_docs_tree_fetched ==
    /\ pc = "fetched"
    /\ op.name = "cmd_docs_tree"
    /\ pc' = "done"
    /\ docs' = results
    /\ cache' = load_cache
    /\ IF cache'.kind # "object"
       THEN /\ ret' = Crashed
            /\ UNCHANGED <<file, roots>>
       ELSE /\ \E w \in WriteOutcomes :
                 /\ file' = save_cache([cache' EXCEPT !.map =
                                Put(@, coll_key(op.collection_id), docs')], w)
                 /\ ret' = Returned(docs', w)
            /\ roots' = Roots(docs')
    /\ UNCHANGED <<op, fetchVars, file0, new_children, stack, to_remove,
                   srvVars, nsteps, otherCmdVars>>

\* A mirror file an earlier run wrote when the server held one collection
\* and, in collection 1, the documents 1 and 2.
StaleFile ==
    [kind |-> "object",
     map |-> Put(Put(EmptyMap, "collections", FlatList(1)),
                 "collection:1", <<Rec(1, None), Rec(2, 1)>>)]

StartFiles == {AbsentFile, InvalidFile, ArrayFile, ScalarFile, StaleFile}

InitMirror ==
    /\ InitLocals
    /\ srvDocs = InitDocs
    /\ srvCols \in ColCounts
    /\ past = [k \in {"collections", "collection:1", "collection:2"} |->
                 {IF k = "collections" THEN FlatList(srvCols)
                  ELSE IF k = "collection:1"
                       THEN ListOf(InitDocs[1], DOMAIN InitDocs[1])
                       ELSE ListOf(InitDocs[2], DOMAIN InitDocs[2])}]
    /\ file \in StartFiles
    /\ file0 = file
    /\ docs = <<>>
    /\ body = EmptyDict
    /\ resp = EmptyDict
    /\ inv = NoInv

NextMirror ==
    \/ FirstPage
    \/ RoundDispatch
    \/ \E off \in pending : PageDone(off)
    \/ RoundEnd
    \/ list_collections_call
    \/ list_collections_fetched
    \/ list_documents_in_collection_call
    \/ list_documents_in_collection_fetched
    \/ refresh_document_branch_call
    \/ refresh_document_branch_fetched
    \/ refresh_document_branch_walk
    \/ refresh_document_branch_merge
    \/ cmd_collections_export_call
    \/ cmd_docs_export_batch_call
    \/ cmd_docs_import_dir_call
    \/ cmd_export_call
    \/ cmd_import_call
    \/ cmd_diag_collections_call
    \/ cmd_diag_documents_call
    \/ browse_collection
    \/ cmd_docs_tree_call
    \/ cmd_docs_tree_fetched
    \/ Exit

SpecMirror == InitMirror /\ [][NextMirror]_vars

\* -----------------------------------------------------------------
\* core/utils.py, _post_page: what is made of one response body
\* -----------------------------------------------------------------
\* JSON values under a key of a response: null, or a list of records.
Null == [t |-> "null", v |-> <<>>]
List(l) == [t |-> "list", v |-> l]

\* Python truthiness of such a value: None and [] are falsy.
Truthy(x) == x.t = "list" /\ x.v # <<>>

\* d.get(k)
Get(m, k) == IF k \in DOMAIN m THEN m[k] ELSE Null

\* (variant: `and` written for `or`)
Or_and(a, b) == IF Truthy(a) THEN b ELSE a

\* a or b
Or(a, b) == IF Truthy(a) THEN a ELSE b

\* The response bodies: something that is no JSON object (raw bytes, an
\* array), or an object with any of the keys data, results, rows and an
\* unrelated key; the records under each key are told apart by their ids.
PageKeys == {"data", "results", "rows", "unexpected"}

KeyValues(k) ==
    {Null} \cup {List([i \in 1 .. n |->
                        Rec((IF k = "data" THEN 0
                             ELSE IF k = "results" THEN 10 ELSE 20) + i, None)])
                 : n \in 0 .. MaxPageLen}

Bodies ==
    {[kind |-> "other", map |-> EmptyMap]}
      \cup UNION {{[kind |-> "object", map |-> m] :
                      m \in {f \in [S -> UNION {KeyValues(k) : k \in PageKeys}] :
                               \A k \in S : f[k] \in KeyValues(k)}}
                  : S \in SUBSET PageKeys}

\* data = http_json(..); if not isinstance(data, dict): return {"data": []};
\* if "data" not in data: data["data"] = results or rows or []; return data
post_page_body(b) ==
    IF b.kind # "object"
    THEN [kind |-> "object", map |-> Put(EmptyMap, "data", List(<<>>))]
    ELSE IF "data" \in DOMAIN b.map THEN b
    ELSE [b EXCEPT !.map =
            Put(@, "data",
                Or(Or(Get(b.map, "results"), Get(b.map, "rows")), List(<<>>)))]

\* _post_page: the request is sent, the server answers with some body, the
\* payload is returned.
post_page_call ==
    \E b \in Bodies :
        /\ pc = "idle"
        /\ body' = b
        /\ resp' = post_page_body(b)
        /\ pc' = "payload"
        /\ UNCHANGED <<op, cache, fetchVars, ret, file, file0, walkVars,
                       srvVars, nsteps, roots, page_records, users, stdout,
                       stderr, exit_code, cur_offset, inv>>

\* items = list(first.get("data") or []) / page_items = data.get("data") or []
take_page_items ==
    /\ pc = "payload"
    /\ page_records' = Or(Get(resp.map, "data"), List(<<>>)).v
    /\ pc' = "done"
    /\ UNCHANGED <<op, cache, fetchVars, ret, file, file0, walkVars, srvVars,
                   nsteps, roots, body, resp, users, stdout, stderr,
                   exit_code, cur_offset, inv>>

\* One page request after another, over every response body of the bounds.
NextPage ==
    \/ post_page_call
    \/ take_page_items
    \/ Exit

SpecPage == Init /\ [][NextPage]_vars

\* -----------------------------------------------------------------
\* Properties of fetch_all_concurrent (SpecFetch)
\* -----------------------------------------------------------------
FetchReturned == pc = "done" /\ op.name = "fetch" /\ ret.kind = "returned"

RECURSIVE PagesOf(_)
\* the pages of the offsets in s, concatenated in the order of s
PagesOf(s) ==
    IF s = <<>> THEN <<>> ELSE post_page(Limit, Head(s)) \o PagesOf(Tail(s))

OutOfOrder(s) == \E i, j \in 1 .. Len(s) : i < j /\ s[i].id > s[j].id

CeilDiv(a, b) == (a + b - 1) \div b

\* C1: for a gap-free data set of k records, any limit >= 1 and any
\* workers >= 1, the returned list holds exactly the k records, each once.
C1_ReturnsExactlyTheDataSet ==
    (FetchReturned /\ gaps = {} /\ op.workers >= 1)
        => SeqToBag(ret.value) = SeqToBag(data)

\* C1 witness: a complete multi-round fetch with two or more workers.
C1_Witness ==
    /\ FetchReturned /\ gaps = {} /\ op.workers >= 2
    /\ Len(data) >= 4
    /\ Len(reqs) > 1 + op.workers
    /\ SeqToBag(ret.value) = SeqToBag(data)

\* C2: whatever the order in which the page requests of a round complete,
\* the returned list is the union of the pages fetched: as a multiset it
\* equals the pages of the requested offsets, no record twice.
C2_OrderIndependentUnion ==
    FetchReturned =>
        /\ SeqToBag(ret.value) = SeqToBag(PagesOf(reqs))
        /\ \A i, j \in 1 .. Len(ret.value) :
              ret.value[i] = ret.value[j] => i = j

\* C2 witness: a page of a higher offset was consumed before a page of a
\* lower offset, and the call returned.
C2_Witness ==
    /\ FetchReturned
    /\ op.workers >= 2
    /\ OutOfOrder(ret.value)
    /\ SeqToBag(ret.value) = SeqToBag(PagesOf(reqs))

\* C9 (as claimed): with workers <= 0 the fetcher behaves as with one
\* worker and returns the complete gap-free data set.
C9_NonPositiveWorkersComplete ==
    (FetchReturned /\ gaps = {} /\ op.workers <= 0)
        => SeqToBag(ret.value) = SeqToBag(data)

\* C10 (as claimed): ceil(k/limit) requests, the pages after the first
\* rounded up to whole batches of workers; one request when the first page
\* is short.
C10_CeilRequests ==
    (FetchReturned /\ gaps = {} /\ op.workers >= 1)
        => Len(reqs) =
             IF Len(data) < Limit THEN 1
             ELSE 1 + op.workers
                        * CeilDiv(CeilDiv(Len(data), Limit) - 1, op.workers)

\* C10 (amended): floor(k/limit) + 1 pages are needed, the last of them the
\* first short (possibly empty) page; the floor(k/limit) pages after the
\* first are rounded up to whole batches of workers; one request when the
\* first page is short.
C10_FloorPlusOneRequests ==
    (FetchReturned /\ gaps = {} /\ op.workers >= 1)
        => Len(reqs) =
             IF Len(data) < Limit THEN 1
             ELSE 1 + op.workers * CeilDiv(Len(data) \div Limit, op.workers)

\* C10 witness: the data set is a whole number of full pages, so the page
\* that ends the fetch is an empty one beyond ceil(k/limit).
C10_Witness ==
    /\ FetchReturned /\ gaps = {} /\ op.workers >= 2
    /\ Len(data) >= 2 * Limit
    /\ Len(data) % Limit = 0
    /\ Len(reqs) > CeilDiv(Len(data), Limit) + 1

\* -----------------------------------------------------------------
\* Properties of the mirror store and the subtree refresh (Spec)
\* -----------------------------------------------------------------
StoreKey ==
    IF op.name = "list_collections" THEN "collections"
    ELSE coll_key(op.collection_id)

IsListCall == op.name \in {"list_collections", "list_documents_in_collection"}

\* the running call's entry of the mirror as it was when the call started
Cached0 == file0.kind = "object" /\ StoreKey \in DOMAIN file0.map
OldList == IF Cached0 THEN file0.map[StoreKey] ELSE <<>>

RefreshReturned ==
    pc = "done" /\ op.name = "refresh_document_branch" /\ ret.kind = "returned"

RECURSIVE Descendants(_, _, _)
\* ids of the records of list ds that lie below p, by parentDocumentId,
\* followed to depth n
Descendants(ds, p, n) ==
    IF n = 0 THEN {}
    ELSE LET kids == {ds[i].id : i \in {j \in 1 .. Len(ds) :
                                          ds[j].parentDocumentId = p}}
         IN kids \cup UNION {Descendants(ds, k, n - 1) : k \in kids}

Stale == Descendants(OldList, op.parent_id, Len(OldList))
Kept == SelectSeq(OldList, LAMBDA d : d.id \notin Stale)

\* C3 (as claimed): every entry of the mirror is empty or is, up to order,
\* a complete record list the server has had for that key.
C3_EntriesAreCompleteLists ==
    file.kind = "object" =>
        \A k \in DOMAIN file.map :
            \/ file.map[k] = <<>>
            \/ \E l \in past[k] : SeqToBag(file.map[k]) = SeqToBag(l)

\* C4: when a page request of the fetch fails, the call raises, returns no
\* list, and the mirror file is as it was when the call started.
C4_FailedFetchLeavesMirror ==
    (pc = "done" /\ ret.kind = "raised")
        => /\ file = file0
           /\ ret.value = <<>>
           /\ ret.wrote = "none"

\* C4 witness: list_collections fails on a page of a round, after the first
\* page was received, with a mirror that already holds an entry.
C4_Witness ==
    /\ pc = "done" /\ ret.kind = "raised"
    /\ op.name = "list_collections"
    /\ Len(reqs) > 1
    /\ results # <<>>
    /\ file0.kind = "object"
    /\ file = file0

\* C5: a list call with use_cache, without refresh_cache, whose key is in
\* the mirror is over at once: it returns the cached list as it is, issues
\* no request and leaves the mirror file alone.
C5_CachedReadNoNetwork ==
    (pc # "idle" /\ IsListCall /\ op.use_cache /\ ~op.refresh_cache /\ Cached0)
        => /\ pc = "done"
           /\ ret = Returned(file0.map[StoreKey], "none")
           /\ reqs = <<>>
           /\ file = file0

\* C5 witness: the cached list returned is the empty list.
C5_Witness ==
    /\ pc = "done" /\ IsListCall /\ op.use_cache /\ ~op.refresh_cache
    /\ Cached0
    /\ file0.map[StoreKey] = <<>>
    /\ ret.kind = "returned" /\ ret.value = <<>>

\* C6 (as claimed): list_documents_in_collection with use_cache and
\* refresh_cache fetches live and afterwards the mirror entry of the key is
\* exactly the fetched list.
C6_RefreshOverwritesMirror ==
    (pc = "done" /\ op.name = "list_documents_in_collection"
       /\ op.use_cache /\ op.refresh_cache /\ ret.kind = "returned")
        => /\ reqs # <<>>
           /\ ret.value = data
           /\ file.kind = "object"
           /\ StoreKey \in DOMAIN file.map
           /\ file.map[StoreKey] = ret.value

\* C6 (amended): the call fetches live and returns the fetched list; the
\* mirror entry of the key is exactly that list when the write of the
\* mirror file succeeded, and a failed write leaves the file as it was or
\* unparseable.
C6_RefreshOverwritesWhenWritten ==
    (pc = "done" /\ op.name = "list_documents_in_collection"
       /\ op.use_cache /\ op.refresh_cache /\ ret.kind = "returned")
        => /\ reqs # <<>>
           /\ ret.value = data
           /\ ret.wrote = "written" =>
                 /\ file.kind = "object"
                 /\ StoreKey \in DOMAIN file.map
                 /\ file.map[StoreKey] = ret.value
           /\ ret.wrote # "written" =>
                 (file = file0 \/ file.kind = "invalid")

\* C6 witness: the key was cached, the fetched list has another length,
\* and the write succeeded.
C6_Witness ==
    /\ pc = "done" /\ op.name = "list_documents_in_collection"
    /\ op.use_cache /\ op.refresh_cache /\ ret.kind = "returned"
    /\ Cached0
    /\ Len(ret.value) # Len(OldList)
    /\ ret.wrote = "written"
    /\ file.map[StoreKey] = ret.value

\* C7: the merged list of refresh_document_branch(c, P) starts with every
\* previously cached record whose id is not below P (P itself, its
\* siblings, its ancestors, unrelated branches), unchanged and in the
\* previous order; P is never among the ids below P; a successful write
\* stores that list.
C7_RefreshKeepsOthers ==
    RefreshReturned =>
        /\ Len(ret.value) >= Len(Kept)
        /\ SubSeq(ret.value, 1, Len(Kept)) = Kept
        /\ op.parent_id \notin Stale
        /\ ret.wrote = "written" => file.map[StoreKey] = ret.value

\* C7 witness: P, a sibling of P and a stale child of P were cached, and
\* the server's children of P are no longer the cached ones.
C7_Witness ==
    /\ RefreshReturned
    /\ op.parent_id \in Ids(Kept)
    /\ Len(Kept) >= 2
    /\ Stale # {}
    /\ Ids(new_children) # {OldList[i].id : i \in {j \in 1 .. Len(OldList) :
                               OldList[j].parentDocumentId = op.parent_id}}
    /\ ret.wrote = "written"

\* C8: the merged list is the old list without the stale subtree below P,
\* followed by the freshly fetched children: no record cached below P, at
\* any depth, remains unless it is a fresh child.
C8_StaleSubtreeEvicted ==
    RefreshReturned =>
        /\ ret.value = Kept \o data
        /\ \A i \in 1 .. Len(ret.value) :
              ret.value[i].id \in Stale =>
                  /\ i > Len(ret.value) - Len(data)
                  /\ ret.value[i].parentDocumentId = op.parent_id

\* C8 witness: a grandchild of P was cached and is gone from the merged
\* list.
C8_Witness ==
    /\ RefreshReturned
    /\ \E i \in 1 .. Len(OldList) :
          /\ OldList[i].id \in Stale
          /\ OldList[i].parentDocumentId # op.parent_id
          /\ OldList[i].id \notin Ids(ret.value)

\* -----------------------------------------------------------------
\* Properties of the store with a damaged mirror, a failing write, and
\* of the commands with --refresh-cache (SpecMirror, Spec)
\* -----------------------------------------------------------------
StoreFunctions ==
    {"list_collections", "list_documents_in_collection",
     "refresh_document_branch"}

\* C11 (as claimed): with a mirror file that exists but is unparseable or
\* is valid JSON other than an object, the store functions work on an empty
\* dict, never end in an uncaught error, and fetch live.
C11_InvalidMirrorIsEmptyCache ==
    (pc # "idle" /\ op.name \in StoreFunctions /\ op.use_cache
       /\ file0.kind \in {"invalid", "array", "scalar"})
        => /\ cache.kind = "object"
           /\ ret.kind # "crashed"
           /\ reqs = <<>> => pc = "first"

\* C12: when the write of the mirror file fails, the store function still
\* returns the list it fetched (the merged list, for a refresh) and nothing
\* is raised; the file is left as it was or unparseable.
C12_WriteFailureStillReturns ==
    (pc = "done" /\ op.name \in StoreFunctions
       /\ ret.wrote \in {"denied", "truncated"})
        => /\ ret.kind = "returned"
           /\ ret.value = IF op.name = "refresh_document_branch"
                          THEN Kept \o new_children ELSE results
           /\ file = file0 \/ file.kind = "invalid"

\* C12 witness: list_documents_in_collection fetched a non-empty list, the
\* write destroyed the mirror file, and the list was returned nevertheless.
C12_Witness ==
    /\ pc = "done" /\ op.name = "list_documents_in_collection"
    /\ ret.wrote = "truncated"
    /\ file0.kind = "object" /\ file.kind = "invalid"
    /\ ret.kind = "returned" /\ ret.value = results /\ results # <<>>

FlagCommands ==
    {"collections export", "documents export-batch", "documents import-dir",
     "documents tree", "export", "import"}

\* C14 (as claimed): a command run with --refresh-cache fetches live, and
\* unless the write of the mirror fails, the mirror entry of the key is
\* afterwards the fetched list.
C14_RefreshFlagOverwrites ==
    (pc = "done" /\ op.cmd \in FlagCommands /\ op.refresh_cache
       /\ ret.kind = "returned" /\ ret.wrote \notin {"denied", "truncated"})
        => /\ reqs # <<>>
           /\ file.kind = "object"
           /\ StoreKey \in DOMAIN file.map
           /\ file.map[StoreKey] = data

\* -----------------------------------------------------------------
\* Properties of the page normalisation (SpecPage)
\* -----------------------------------------------------------------
\* the records of value x: none for null
RecordsOf(x) == IF x.t = "list" THEN x.v ELSE <<>>

Holds(b, k) == k \in DOMAIN b.map /\ RecordsOf(b.map[k]) # <<>>

\* C13: the records taken from a response are those under `data` when the
\* body is an object with that key; without it those under `results` when
\* there are any, else those under `rows`; an object with none of the
\* three keys, and a body that is no object, give a zero-length page.
C13_PageNormalised ==
    pc = "done" /\ op.name = "none" =>
        page_records =
            IF body.kind # "object" THEN <<>>
            ELSE IF "data" \in DOMAIN body.map THEN RecordsOf(body.map["data"])
            ELSE IF Holds(body, "results") THEN body.map["results"].v
            ELSE IF Holds(body, "rows") THEN body.map["rows"].v
            ELSE <<>>

\* C13 witness: the object {"unexpected": ..} alone gave a zero-length page.
C13_Witness ==
    /\ pc = "done" /\ op.name = "none"
    /\ body.kind = "object"
    /\ DOMAIN body.map = {"unexpected"}
    /\ page_records = <<>>

\* -----------------------------------------------------------------
\* Two invocations of the CLI sharing the mirror file, no locking
\* -----------------------------------------------------------------
\* Each invocation runs one store function that fetches (refresh_cache, or
\* the refresh of the root level), in the steps load_cache, fetch, and
\* save_cache; save_cache is Path.write_text, which opens the file for
\* writing (truncating it) and then writes the text from offset 0.
Invs == {1, 2}
RaceFns == {"list_collections", "list_documents_in_collection",
            "refresh_document_branch"}

InvKey(i) ==
    IF inv[i].fn = "list_collections" THEN "collections"
    ELSE coll_key(inv[i].collection_id)

raceStill == <<pc, op, cache, fetchVars, ret, file0, walkVars, srvVars, nsteps,
               roots, body, resp, page_records, users, stdout, stderr,
               exit_code, cur_offset>>

\* cache = load_cache()
inv_load(i) ==
    \E f \in RaceFns, c \in CollIds :
        /\ pc = "idle"
        /\ inv[i].pc = "off"
        /\ f = "list_collections" => c = 1
        /\ inv' = [inv EXCEPT ![i] = [pc |-> "loaded", fn |-> f,
                                      collection_id |-> c, cache |-> load_cache,
                                      value |-> <<>>, seq |-> 0]]
        /\ UNCHANGED <<raceStill, file>>

\* The fetch, and for the refresh the merge with the loaded list.
inv_fetch(i) ==
    /\ inv[i].pc = "loaded"
    /\ LET c == inv[i].collection_id
           old == IF InvKey(i) \in DOMAIN inv[i].cache.map
                  THEN inv[i].cache.map[InvKey(i)] ELSE <<>>
           v == CASE inv[i].fn = "list_collections" -> FlatList(srvCols)
                  [] inv[i].fn = "list_documents_in_collection" -> SrvList(c)
                  [] OTHER -> Merged(old, Descendants(old, None, Len(old)),
                                     SrvChildren(c, None))
       IN inv' = [inv EXCEPT ![i].pc = "fetched", ![i].value = v,
                             ![i].cache.map = Put(@, InvKey(i), v)]
    /\ UNCHANGED <<raceStill, file>>

\* write_text, first half: open(.., "w") truncates the file.
inv_save_open(i) ==
    /\ inv[i].pc = "fetched"
    /\ inv' = [inv EXCEPT ![i].pc = "opened"]
    /\ file' = InvalidFile
    /\ UNCHANGED raceStill

\* The length of the JSON text of a dict grows with its keys and records.
TextSize(f) ==
    IF f.kind # "object" THEN 0
    ELSE LET RECURSIVE Sum(_)
             Sum(K) == IF K = {} THEN 0
                       ELSE LET k == CHOOSE x \in K : TRUE
                            IN 1 + Len(f.map[k]) + Sum(K \ {k})
         IN Sum(DOMAIN f.map)

\* write_text, second half: the text is written from offset 0 over what the
\* file holds now; a longer text another process wrote in between keeps its
\* tail, and the file is no JSON text any more.
inv_save_write(i) ==
    /\ inv[i].pc = "opened"
    /\ inv' = [inv EXCEPT ![i].pc = "saved",
                          ![i].seq = 1 + Cardinality({j \in Invs :
                                                       inv[j].pc = "saved"})]
    /\ file' = IF TextSize(inv[i].cache) >= TextSize(file)
               THEN inv[i].cache ELSE InvalidFile
    /\ UNCHANGED raceStill

InitRace ==
    /\ InitLocals
    /\ InitServer
    /\ file \in {AbsentFile, StaleFile}
    /\ file0 = file
    /\ docs = <<>>
    /\ body = EmptyDict
    /\ resp = EmptyDict
    /\ inv = NoInv

NextRace ==
    \E i \in Invs :
        \/ inv_load(i)
        \/ inv_fetch(i)
        \/ inv_save_open(i)
        \/ inv_save_write(i)

SpecRace == InitRace /\ [][NextRace]_vars

\* the invocation whose write of the file came last
LastSaver == CHOOSE i \in Invs : inv[i].seq = 2

\* C15 (as claimed): when both invocations have saved, the file is exactly
\* the snapshot of the one that saved last: what it loaded, with its own
\* key replaced by what it fetched.
C15_LastWriterSnapshotWins ==
    (\A i \in Invs : inv[i].pc = "saved")
        => file = inv[LastSaver].cache

\* -----------------------------------------------------------------
\* commands/documents.py, cmd_docs_tree: the roots of a document list
\* -----------------------------------------------------------------
\* Document lists as the tree assembly can meet them, complete or partial:
\* ids 1..3, parents None, 1..3, or 4, an id no record of the list has.
TreeRecs == {Rec(i, p) : i \in 1 .. 3, p \in 0 .. 4}

TreeLists == UNION {[1 .. n -> TreeRecs] : n \in 0 .. MaxTreeLen}

\* cmd_docs_tree from `by_id = ..` on, without --root-id: index, roots.
docs_tree_assemble ==
    \E ds \in TreeLists :
        /\ pc = "idle"
        /\ op' = [NoCall EXCEPT !.name = "cmd_docs_tree",
                                !.cmd = "documents tree"]
        /\ docs' = ds
        /\ roots' = Roots(ds)
        /\ ret' = Returned(ds, "none")
        /\ pc' = "done"
        /\ UNCHANGED <<cache, fetchVars, file, file0, new_children, stack,
                       to_remove, srvVars, nsteps, otherCmdVars>>

NextTree ==
    \/ docs_tree_assemble
    \/ Exit

SpecTree == Init /\ [][NextTree]_vars

\* C16: a document of the list is among the roots exactly when its
\* parentDocumentId is null or is the id of no document of the list; the
\* roots are documents of the list, in list order, none twice over.
C16_RootsAreParentless ==
    (pc = "done" /\ op.name = "cmd_docs_tree") =>
        /\ \A i \in 1 .. Len(docs) :
              (\E r \in 1 .. Len(roots) : roots[r] = docs[i])
                <=> \/ docs[i].parentDocumentId = None
                    \/ ~ \E j \in 1 .. Len(docs) :
                           docs[j].id = docs[i].parentDocumentId
        /\ \A r \in 1 .. Len(roots) : \E i \in 1 .. Len(docs) : docs[i] = roots[r]
        /\ Len(roots) <= Len(docs)

\* C16 witness: one document names a parent that is not in the list and is
\* a root; another names that document as its parent and is none.
C16_Witness ==
    /\ pc = "done" /\ op.name = "cmd_docs_tree"
    /\ \E i, j \in 1 .. Len(docs) :
          /\ docs[i].parentDocumentId # None
          /\ docs[i].parentDocumentId \notin Ids(docs)
          /\ docs[j].parentDocumentId = docs[i].id
          /\ docs[i] \in SeqSet(roots)
          /\ docs[j] \notin SeqSet(roots)

\* -----------------------------------------------------------------
\* core/http.py, http_json, and the admin commands built on it
\* (commands/admin.py)
\* -----------------------------------------------------------------
\* What urlopen does with a request: a response, an HTTPError with a
\* status code, or a URLError (no connection).
HttpCodes == {400, 401, 403, 404, 500}
OkResponse == [kind |-> "ok", code |-> 200]
HttpErr(c) == [kind |-> "http_error", code |-> c]
UrlErr == [kind |-> "url_error", code |-> 0]
Urlopen == {OkResponse, UrlErr} \cup {HttpErr(c) : c \in HttpCodes}

\* One printed line: its wording and the status code or user it is about.
Line(t, a) == [text |-> t, about |-> a]

\* _handle_http_error: the one line it prints before sys.exit(2).
handle_http_error(c) ==
    Line(IF c = 401 THEN "Authentication failed: .."
         ELSE IF c = 403 THEN "Forbidden: .. (are you an administrator?)"
         ELSE "[HTTP code] ..", c)

\* (variant: handle_error is ignored, every HTTPError is handled inside)
http_json_always_handles(b, handle_error) ==
    [kind |-> IF b.kind = "ok" THEN "returned" ELSE "exit",
     handle_error |-> handle_error]

\* http_json: returns the parsed body, raises the HTTPError to the caller
\* (handle_error false), or ends the process with sys.exit(2).
http_json(b, handle_error) ==
    [kind |-> CASE b.kind = "ok" -> "returned"
                [] b.kind = "http_error" /\ ~handle_error -> "raised"
                [] OTHER -> "exit",
     handle_error |-> handle_error]

\* What http_json prints to stderr on its way out.
http_json_stderr(b, r) ==
    IF r.kind # "exit" THEN <<>>
    ELSE IF b.kind = "http_error" THEN <<handle_http_error(b.code)>>
    ELSE <<Line("Network error: ..", 0)>>

adminStill == <<cache, next_offset, pending, stop, file, file0, walkVars,
                srvVars, nsteps, roots, page_records, inv>>

\* args.users: ids (UUIDs) and an e-mail address that has to be looked up.
Idents == {"id-1", "id-2", "mail"}
is_uuid(u) == u # "mail"
UserLists == UNION {[1 .. n -> Idents] : n \in 1 .. MaxUsers}

GroupCmds == {"cmd_admin_groups_add_user", "cmd_admin_groups_del_user"}

\* yonote admin groups add-user / del-user <group-id> <users..>
cmd_admin_groups_user_call(name) ==
    \E us \in UserLists :
        /\ pc = "idle"
        /\ op' = [NoCall EXCEPT !.name = name, !.cmd = "admin groups"]
        /\ users' = us
        /\ pc' = "resolve"
        /\ UNCHANGED <<fetchVars, ret, body, resp, stdout, stderr, exit_code,
                       cur_offset, adminStill>>

cmd_admin_groups_add_user_call ==
    cmd_admin_groups_user_call("cmd_admin_groups_add_user")

cmd_admin_groups_del_user_call ==
    cmd_admin_groups_user_call("cmd_admin_groups_del_user")

\* uid = _resolve_user_id(base, token, user): a UUID is taken as it is, an
\* e-mail is looked up with http_json (handle_error left at its default).
resolve_user_id ==
    /\ pc = "resolve"
    /\ op.name \in GroupCmds
    /\ IF is_uuid(Head(users))
       THEN /\ pc' = "request"
            /\ UNCHANGED <<body, resp, stderr, exit_code>>
       ELSE \E b \in Urlopen, found \in BOOLEAN :
              /\ body' = b
              /\ resp' = http_json(b, TRUE)
              /\ IF resp'.kind = "exit"
                 THEN /\ stderr' = stderr \o http_json_stderr(b, resp')
                      /\ exit_code' = 2
                      /\ pc' = "done"
                 ELSE IF found
                 THEN /\ pc' = "request"
                      /\ UNCHANGED <<stderr, exit_code>>
                 ELSE /\ stderr' = Append(stderr, Line("User not found: ..",
                                                       Head(users)))
                      /\ exit_code' = 1
                      /\ pc' = "done"
    /\ UNCHANGED <<op, users, stdout, fetchVars, ret, cur_offset, adminStill>>

\* http_json("POST", groups.add_user / groups.remove_user, ..,
\*           handle_error=False)
group_user_http_json ==
    \E b \in Urlopen :
        /\ pc = "request"
        /\ body' = b
        /\ resp' = http_json(b, FALSE)
        /\ stderr' = stderr \o http_json_stderr(b, resp')
        /\ IF resp'.kind = "exit"
           THEN exit_code' = 2 /\ pc' = "done"
           ELSE pc' = "handle" /\ UNCHANGED exit_code
        /\ UNCHANGED <<op, users, stdout, fetchVars, ret, cur_offset,
                       adminStill>>

\* The rest of the loop body: print "added" / "removed"; or, in the except
\* clause, print "skipped" for e.code == 400 and call _handle_http_error
\* for any other code.  After the last user the command returns.
group_user_handle ==
    /\ pc = "handle"
    /\ IF resp.kind = "raised" /\ body.code # 400
       THEN /\ stderr' = Append(stderr, handle_http_error(body.code))
            /\ exit_code' = 2
            /\ pc' = "done"
            /\ UNCHANGED <<users, stdout>>
       ELSE /\ stdout' = Append(stdout,
                 Line(IF resp.kind = "raised" THEN "skipped"
                      ELSE IF op.name = "cmd_admin_groups_add_user"
                           THEN "added" ELSE "removed",
                      Head(users)))
            /\ users' = Tail(users)
            /\ IF users' = <<>>
               THEN pc' = "done" /\ exit_code' = 0
               ELSE pc' = "resolve" /\ UNCHANGED exit_code
            /\ UNCHANGED stderr
    /\ UNCHANGED <<op, body, resp, fetchVars, ret, cur_offset, adminStill>>

\* Membership lists the server can hold: whole pages, and one record more.
MemberCounts ==
    {n * API_MAX_LIMIT + r : n \in 0 .. MaxMemberPages, r \in {0, 1}}

\* (variant: only an empty page ends the loop)
MemberShort_empty(items) == Len(items) = 0

\* if len(items) < API_MAX_LIMIT: break
MemberShort(items) == Len(items) < API_MAX_LIMIT

\* yonote admin groups memberships <group-id>: _fetch_memberships starts
\* with results = [], offset = 0.
fetch_memberships_call ==
    \E k \in MemberCounts :
      \E g \in GapChoices(k, API_MAX_LIMIT) :
        /\ pc = "idle"
        /\ op' = [NoCall EXCEPT !.name = "_fetch_memberships",
                                !.cmd = "admin groups memberships",
                                !.limit = API_MAX_LIMIT]
        /\ data' = FlatList(k)
        /\ gaps' = g
        /\ results' = <<>>
        /\ reqs' = <<>>
        /\ cur_offset' = 0
        /\ pc' = "pager"
        /\ UNCHANGED <<next_offset, pending, stop, ret, body, resp, users,
                       stdout, stderr, exit_code, cache, file, file0, walkVars,
                       srvVars, nsteps, roots, page_records, inv>>

\* One turn of `while True`: the request at `offset`, results.extend(items),
\* break on a short page, else offset += API_MAX_LIMIT.
fetch_memberships_page ==
    \E b \in Urlopen :
        /\ pc = "pager"
        /\ body' = b
        /\ resp' = http_json(b, TRUE)
        /\ reqs' = Append(reqs, cur_offset)
        /\ stderr' = stderr \o http_json_stderr(b, resp')
        /\ IF resp'.kind = "exit"
           THEN /\ exit_code' = 2
                /\ pc' = "done"
                /\ ret' = [kind |-> "raised", value |-> <<>>, wrote |-> "none"]
                /\ UNCHANGED <<results, cur_offset>>
           ELSE LET items == ServerPage(data, gaps, API_MAX_LIMIT, cur_offset)
                IN /\ results' = results \o items
                   /\ IF MemberShort(items)
                      THEN /\ pc' = "done"
                           /\ ret' = Returned(results', "none")
                           /\ exit_code' = 0
                           /\ UNCHANGED cur_offset
                      ELSE /\ cur_offset' = cur_offset + API_MAX_LIMIT
                           /\ UNCHANGED <<pc, ret, exit_code>>
        /\ UNCHANGED <<op, data, gaps, next_offset, pending, stop, users,
                       stdout, cache, file, file0, walkVars, srvVars, nsteps,
                       roots, page_records, inv>>

NextAdmin ==
    \/ cmd_admin_groups_add_user_call
    \/ cmd_admin_groups_del_user_call
    \/ resolve_user_id
    \/ group_user_http_json
    \/ group_user_handle
    \/ fetch_memberships_call
    \/ fetch_memberships_page
    \/ Exit

SpecAdmin == Init /\ [][NextAdmin]_vars

AdminOps == GroupCmds \cup {"_fetch_memberships"}

\* an http_json call of the running admin command is over
HttpCalled == op.name \in AdminOps /\ resp.kind \in {"returned", "raised", "exit"}

\* C17: an HTTP error status with handle_error true ends the process with
\* exit code 2 and exactly one line on stderr, for 403 the Forbidden line
\* with the administrator hint; with handle_error false it is raised to
\* the caller, nothing is printed and the process goes on; a transport
\* error ends the process with exit code 2 and one line in both modes.
C17_HttpJsonErrorModes ==
    HttpCalled =>
        /\ body.kind = "ok" => resp.kind = "returned"
        /\ (body.kind = "http_error" /\ resp.handle_error)
              => /\ resp.kind = "exit"
                 /\ pc = "done" /\ exit_code = 2
                 /\ stderr = <<handle_http_error(body.code)>>
                 /\ body.code = 403 =>
                       stderr[1].text = "Forbidden: .. (are you an administrator?)"
        /\ (body.kind = "http_error" /\ ~resp.handle_error)
              => /\ resp.kind = "raised"
                 /\ pc = "handle" => (exit_code = None /\ stderr = <<>>)
        /\ body.kind = "url_error"
              => /\ resp.kind = "exit"
                 /\ pc = "done" /\ exit_code = 2
                 /\ stderr = <<Line("Network error: ..", 0)>>

\* C17 witness: a request with handle_error false was answered 400, raised
\* and skipped; a later request with handle_error true was answered 403 and
\* ended the process with the Forbidden line.
C17_Witness ==
    /\ op.name \in GroupCmds /\ pc = "done"
    /\ \E i \in 1 .. Len(stdout) : stdout[i].text = "skipped"
    /\ resp = http_json(HttpErr(403), TRUE)
    /\ body = HttpErr(403)
    /\ exit_code = 2
    /\ Len(stderr) = 1

\* the client error of the claim: 400 on add, 404 on delete
ClaimedSkipCode == IF op.name = "cmd_admin_groups_add_user" THEN 400 ELSE 404

\* C18 (as claimed): a user whose request fails with the client error is
\* reported as skipped and the command goes on to the remaining users.
C18_ClientErrorSkipsUser ==
    (op.name \in GroupCmds /\ pc \in {"resolve", "done"}
       /\ resp.kind = "raised" /\ body.code = ClaimedSkipCode)
        => /\ exit_code # 2
           /\ stdout # <<>>
           /\ stdout[Len(stdout)].text = "skipped"

RECURSIVE MemberPages(_)
\* the membership pages of the offsets in s, concatenated in the order of s
MemberPages(s) ==
    IF s = <<>> THEN <<>>
    ELSE ServerPage(data, gaps, API_MAX_LIMIT, Head(s)) \o MemberPages(Tail(s))

\* C19: the pager requests the offsets 0, L, 2L, .. in this order, every
\* page before the last requested one was full, and it returns right after
\* the first short page with the pages concatenated in offset order.
C19_SequentialPager ==
    op.name = "_fetch_memberships" =>
        /\ reqs = Range(0, Len(reqs) * API_MAX_LIMIT, API_MAX_LIMIT)
        /\ \A i \in 1 .. Len(reqs) - 1 :
              Len(ServerPage(data, gaps, API_MAX_LIMIT, reqs[i])) = API_MAX_LIMIT
        /\ (pc = "done" /\ ret.kind = "returned")
              => /\ ret.value = MemberPages(reqs)
                 /\ Len(ServerPage(data, gaps, API_MAX_LIMIT, reqs[Len(reqs)]))
                       < API_MAX_LIMIT
        /\ (pc = "pager" /\ reqs # <<>>)
              => /\ results = MemberPages(reqs)
                 /\ Len(ServerPage(data, gaps, API_MAX_LIMIT, reqs[Len(reqs)]))
                       = API_MAX_LIMIT

\* C19 witness: two full pages and a short third one were fetched.
C19_Witness ==
    /\ op.name = "_fetch_memberships" /\ pc = "done" /\ ret.kind = "returned"
    /\ reqs = <<0, API_MAX_LIMIT, 2 * API_MAX_LIMIT>>
    /\ Len(ret.value) = 2 * API_MAX_LIMIT + 1

\* -----------------------------------------------------------------
\* Termination of fetch_all_concurrent (SpecFetchLive)
\* -----------------------------------------------------------------
\* C20: a started fetch comes to its end, and nothing is returned while a
\* request of the round is still outstanding: a slow request holds the
\* return back, and the list returned holds the pages of all requests,
\* the slow ones included.
C20_FetchEventuallyReturns ==
    /\ [](pending # {} => (pc = "wait" /\ ret.kind = "none"))
    /\ (pc = "first") ~>
          (pc = "done" /\ (ret.kind = "raised"
                           \/ SeqToBag(ret.value) = SeqToBag(PagesOf(reqs))))

\* C20 witness: in the last round the short page has arrived and a request
\* for a page with records is still outstanding.
C20_Witness ==
    /\ pc = "wait" /\ op.name = "fetch"
    /\ stop
    /\ \E off \in pending : post_page(Limit, off) # <<>>

\* -----------------------------------------------------------------
\* The rounds of fetch_all_concurrent (SpecFetch)
\* -----------------------------------------------------------------
\* a step that issues the requests of a round
NewRound == reqs # <<>> /\ Len(reqs') > Len(reqs)

\* the first offset of the round issued last (0 for the first page alone)
LastRoundFirst == IF Len(reqs) = 1 THEN 0 ELSE reqs[Len(reqs) - op.workers + 1]

\* the width of the round issued last, in records
LastRoundSpan == IF Len(reqs) = 1 THEN Limit ELSE Limit * op.workers

\* some page requested so far is short
ShortRequested == \E i \in 1 .. Len(reqs) : Short(post_page(Limit, reqs[i]))

\* C21: once a page of a round is short, wherever it lies in the round and
\* whenever it completes, no further request is issued by the call; a round
\* whose pages are all full is followed by the round that starts at the
\* previous first offset + limit * workers.
C21_ShortPageEndsFullRoundAdvances ==
    [][/\ ShortRequested => (reqs' = reqs \/ reqs' = <<>>)
       /\ NewRound =>
             /\ ~ShortRequested
             /\ pending = {}
             /\ reqs' = reqs \o Range(LastRoundFirst + LastRoundSpan,
                                      LastRoundFirst + LastRoundSpan
                                          + Limit * op.workers,
                                      Limit)]_vars

\* C21 witness: after a full round, a second round held a short page at its
\* first offset and a full page behind it, pages were consumed out of
\* offset order, and the call went on to return without a third round.
C21_Witness ==
    /\ pc = "fetched" /\ op.name = "fetch" /\ op.workers >= 2
    /\ Len(reqs) = 1 + 2 * op.workers
    /\ Short(post_page(Limit, reqs[2 + op.workers]))
    /\ ~Short(post_page(Limit, reqs[3 + op.workers]))
    /\ \E i, j \in 1 .. Len(results) :
          i < j /\ results[i].id > results[j].id

\* a step that consumes the result of a page request of the round
Consumes == pc = "wait" /\ pending' # pending /\ pc' = "wait"

\* C22: when a result of a round is consumed, every request of the round
\* has been dispatched; the loop leaves the round (to stop or to go on) and
\* requests of a next round are issued only when no request of the current
\* round is outstanding.
C22_RoundStructure ==
    [][/\ Consumes =>
             /\ SeqSet(Offsets) \subseteq SeqSet(reqs)
             /\ pending \subseteq SeqSet(Offsets)
             /\ reqs' = reqs
       /\ (pc = "wait" /\ pc' \in {"loop", "fetched"}) => pending = {}
       /\ NewRound => pending = {}]_vars

\* C22 witness: in the second round of three requests the two short pages
\* have been consumed, the decision to stop is known, and the request of
\* the lowest offset is still outstanding.
C22_Witness ==
    /\ pc = "wait" /\ op.name = "fetch" /\ op.workers = 3
    /\ Len(reqs) = 1 + 2 * op.workers
    /\ pending = {reqs[2 + op.workers]}
    /\ stop
    /\ ret.kind = "none"

Max(a, b) == IF a > b THEN a ELSE b

\* page requests of the running call that are in flight: the first page
\* while it is awaited, else the futures not yet consumed
InFlight == IF pc = "first" THEN 1 ELSE Cardinality(pending)

\* C23: at every moment of a call at most max(1, workers) page requests are
\* in flight; the first page is requested alone and has been received
\* before any request is handed to the executor.
C23_InFlightBounded ==
    op.name = "fetch" =>
        /\ InFlight <= Max(1, op.workers)
        /\ pc = "first" => (pending = {} /\ reqs = <<>>)
        /\ pending # {} => (reqs[1] = 0 /\ 0 \notin pending
                            /\ Len(results) >= Limit)

\* C23 witness: a round with the largest workers value has all its requests
\* in flight.
C23_Witness ==
    /\ pc = "wait" /\ op.name = "fetch"
    /\ op.workers = MaxWorkers
    /\ Cardinality(pending) = MaxWorkers
    /\ results = post_page(Limit, 0)

\* a call that runs, or has run, fetch_all_concurrent
Fetching == op.name \in {"fetch"} \cup StoreFunctions

\* C24: every request of a call carries a limit of at most 100 and an
\* offset that is a non-negative multiple of that limit; no offset is
\* requested twice, and the offsets requested are 0, limit, 2*limit, ..
\* without a hole.
C24_OffsetsGapFreePrefix ==
    Fetching =>
        /\ Limit <= API_MAX_LIMIT
        /\ \A i \in 1 .. Len(reqs) : reqs[i] >= 0 /\ reqs[i] % Limit = 0
        /\ \A i, j \in 1 .. Len(reqs) : reqs[i] = reqs[j] => i = j
        /\ SeqSet(reqs) = {n * Limit : n \in 0 .. Len(reqs) - 1}

\* C24 witness: with limit 2 and two workers the call has requested the
\* offsets 0, 2 and 4 and returned.
C24_Witness ==
    /\ FetchReturned
    /\ op.limit = 2 /\ op.workers = 2
    /\ SeqSet(reqs) = {0, 2, 4}
    /\ Len(reqs) = 3

\* -----------------------------------------------------------------
\* Frame of the writing store operations (Spec)
\* -----------------------------------------------------------------
\* the keys of mirror file f other than the running call's own key
OtherKeys(f) == IF f.kind = "object" THEN DOMAIN f.map \ {StoreKey} ELSE {}

\* C25 (as claimed): a store operation leaves the entry under every key
\* other than its own as it was when the operation started.
C25_OnlyOwnKeyChanges ==
    (pc = "done" /\ op.name \in StoreFunctions) =>
        /\ OtherKeys(file) = OtherKeys(file0)
        /\ \A k \in OtherKeys(file0) : file.map[k] = file0.map[k]

\* -----------------------------------------------------------------
\* The cached document list across refreshes and moves (Spec)
\* -----------------------------------------------------------------
NoDuplicateIds(s) == \A i, j \in 1 .. Len(s) : s[i].id = s[j].id => i = j

\* C26 (as claimed): whatever list and refresh operations ran, and however
\* documents were moved on the server in between, the list cached for a
\* collection holds no two records with the same id.
C26_NoDuplicateIds ==
    file.kind = "object" =>
        \A c \in CollIds :
            coll_key(c) \in DOMAIN file.map
                => NoDuplicateIds(file.map[coll_key(c)])

\* -----------------------------------------------------------------
\* The stale-descendant walk on a mirror that lags behind the server
\* -----------------------------------------------------------------
\* Parent maps one legal move away from m (SrvMove).
Moves(m) ==
    {[m EXCEPT ![d] = p] :
        <<d, p>> \in {x \in (DOMAIN m) \X ((DOMAIN m) \cup {None}) :
                        /\ x[2] # m[x[1]]
                        /\ x[2] \notin Below(m, x[1], Cardinality(DocIds))
                                         \cup {x[1]}}}

\* Collection 1 on the server after no, one or two moves.
MovedDocs ==
    {InitDocs[1]} \cup Moves(InitDocs[1])
        \cup UNION {Moves(m) : m \in Moves(InitDocs[1])}

\* The mirror an earlier list_documents_in_collection(1) wrote before the
\* documents were moved.
WarmFile ==
    [kind |-> "object",
     map |-> Put(EmptyMap, "collection:1",
                 ListOf(InitDocs[1], DOMAIN InitDocs[1]))]

InitWalk ==
    /\ InitLocals
    /\ \E m \in MovedDocs : srvDocs = [InitDocs EXCEPT ![1] = m]
    /\ srvCols = 2
    /\ past = [k \in {"collections", "collection:1", "collection:2"} |->
                 IF k = "collections" THEN {FlatList(2)}
                 ELSE IF k = "collection:1"
                      THEN {ListOf(InitDocs[1], DOMAIN InitDocs[1]),
                            ListOf(srvDocs[1], DOMAIN srvDocs[1])}
                      ELSE {<<>>}]
    /\ file = WarmFile
    /\ file0 = file
    /\ docs = <<>>
    /\ body = EmptyDict
    /\ resp = EmptyDict
    /\ inv = NoInv

\* core/interactive.py, the refresh key of the browser: the subtree of the
\* parent on screen is refreshed again.  op.cmd records the key, and whether
\* the list of the previous refresh had been written to the mirror.
browse_refresh ==
    /\ pc = "done"
    /\ op.name = "refresh_document_branch"
    /\ ret.kind = "returned"
    /\ nsteps < MaxSteps
    /\ nsteps' = nsteps + 1
    /\ op' = [op EXCEPT !.cmd = IF ret.wrote = "written"
                                 THEN "refresh key, list saved"
                                 ELSE "refresh key"]
    /\ file0' = file
    /\ cache' = load_cache
    /\ docs' = IF coll_key(op.collection_id) \in DOMAIN cache'.map
               THEN cache'.map[coll_key(op.collection_id)] ELSE <<>>
    /\ data' = SrvChildren(op.collection_id, op.parent_id)
    /\ gaps' = {}
    /\ reqs' = <<>>
    /\ IF cache'.kind = "object"
       THEN ret' = NoRet /\ pc' = "first"
       ELSE ret' = Crashed /\ pc' = "done"
    /\ UNCHANGED <<results, next_offset, pending, stop, file,
                   new_children, stack, to_remove, srvVars, cmdVars>>

\* Subtree refreshes, one after another, in one invocation or in several.
NextWalk ==
    \/ refresh_document_branch_call
    \/ FirstPage
    \/ refresh_document_branch_fetched
    \/ refresh_document_branch_walk
    \/ refresh_document_branch_merge
    \/ browse_refresh
    \/ Exit

SpecWalk == InitWalk /\ [][NextWalk]_vars

\* The same, with every step of a running call eventually taken.
SpecWalkLive ==
    /\ SpecWalk
    /\ WF_vars(FirstPage)
    /\ WF_vars(refresh_document_branch_fetched)
    /\ WF_vars(refresh_document_branch_walk)
    /\ WF_vars(refresh_document_branch_merge)

\* C27 (as claimed): the walk of a refresh comes to its end, so a refresh
\* whose fetch is complete eventually returns.
C27_WalkTerminates ==
    (pc = "walk") ~> (pc = "done" /\ ret.kind = "returned")

\* C28 (as claimed): a refresh of the same parent right after a refresh
\* whose list was saved, the server's children being the same, leaves the
\* cached list as the first refresh left it: same records, same order.
C28_RefreshIdempotent ==
    (RefreshReturned /\ op.cmd = "refresh key, list saved"
       /\ ret.wrote = "written")
        => /\ ret.value = OldList
           /\ file.map[StoreKey] = file0.map[StoreKey]

\* -----------------------------------------------------------------
\* The children of the refreshed parent in the merged list (Spec)
\* -----------------------------------------------------------------
\* the records of list s whose parentDocumentId is p
ChildrenIn(s, p) == SelectSeq(s, LAMBDA d : d.parentDocumentId = p)

\* C29 (as claimed): after a refresh of P the records of the mirror entry
\* whose parent is P are exactly the fetched children, and the returned
\* list is the list in the mirror.
C29_ChildrenAreFreshAndPersisted ==
    RefreshReturned =>
        /\ \A i \in 1 .. Len(data) : data[i].parentDocumentId = op.parent_id
        /\ file.kind = "object"
        /\ StoreKey \in DOMAIN file.map
        /\ ChildrenIn(file.map[StoreKey], op.parent_id) = data
        /\ ret.value = file.map[StoreKey]

\* C29 (amended): the records of the returned list whose parent is P are
\* exactly the fetched children; the returned list is the list in the
\* mirror when the write of the mirror file succeeded, and a failed write
\* leaves the file as it was or unparseable.
C29_ChildrenAreFreshPersistedWhenWritten ==
    RefreshReturned =>
        /\ \A i \in 1 .. Len(data) : data[i].parentDocumentId = op.parent_id
        /\ ChildrenIn(ret.value, op.parent_id) = data
        /\ ret.wrote = "written" =>
              /\ file.kind = "object"
              /\ StoreKey \in DOMAIN file.map
              /\ file.map[StoreKey] = ret.value
        /\ ret.wrote # "written" => (file = file0 \/ file.kind = "invalid")

\* C29 witness: the cached children of P were not the server's children
\* of P, P has a child on the server, and the merged list was written.
C29_Witness ==
    /\ RefreshReturned
    /\ op.parent_id # None
    /\ data # <<>>
    /\ ChildrenIn(OldList, op.parent_id) # <<>>
    /\ ChildrenIn(OldList, op.parent_id) # data
    /\ ChildrenIn(ret.value, op.parent_id) = data
    /\ ret.wrote = "written"
    /\ file.map[StoreKey] = ret.value

\* -----------------------------------------------------------------
\* The list functions without the mirror (SpecMirror)
\* -----------------------------------------------------------------
\* C30: with use_cache false, list_collections and
\* list_documents_in_collection do not read the mirror file (whatever it
\* holds, nothing is loaded from it and nothing fails on it), always fetch
\* live, and leave the file as it was when the call started, with
\* refresh_cache set or not.
C30_NoMirrorWithoutUseCache ==
    (pc # "idle" /\ IsListCall /\ ~op.use_cache) =>
        /\ file = file0
        /\ cache = EmptyDict
        /\ ret.kind # "crashed"
        /\ ret.wrote = "none"
        /\ reqs = <<>> => pc = "first"
        /\ (pc = "done" /\ ret.kind = "returned")
              => (reqs # <<>> /\ ret.value = results)

\* C30 witness: the mirror holds the key of the call, refresh_cache is not
\* set, and the call returned a fetched list that differs from the cached
\* one, the file untouched.
C30_Witness ==
    /\ pc = "done" /\ IsListCall /\ ~op.use_cache /\ ~op.refresh_cache
    /\ ret.kind = "returned"
    /\ Cached0
    /\ ret.value # file0.map[StoreKey]
    /\ reqs # <<>>
    /\ file = file0
====
